---------------------------- MODULE Spec2Model ----------------------------
(***************************************************************************)
(* Voice assistant: the four-node dialogue pipeline (voice_input ->        *)
(* search_memory -> generate_response -> voice_output) driven by           *)
(* run_assistant, and the MemoryManager facade over the namespaced store.  *)
(*                                                                         *)
(* Texts are sequences of tokens.  The tokens "url", "nl" and "**" stand   *)
(* for a match of https?://\S+, a newline and the emphasis markup; every   *)
(* other token is a word.  The empty sequence is the empty string.         *)
(***************************************************************************)
EXTENDS Integers, Sequences, FiniteSets, TLC

VARIABLES
    pc,          \* position of run_assistant / the graph: the node about to run
    turn,        \* number of turns started by run_assistant (i + 1)
    n_turns,     \* run_assistant's n_turns argument
    state,       \* the AssistantState dict threaded through the nodes
    store,       \* the session's store: kind -> user -> sequence of items
    clock,       \* datetime.now() as a logical clock
    uuids,       \* number of identifiers uuid.uuid4() has handed out
    transcript,  \* what record_audio() returned in the current turn
    log,         \* calls made to collaborators in the current turn, in order
    spoken,      \* texts handed to text-to-speech by speak() in the current turn
    turnStart,   \* the state dict as it was when the current turn started
    lastPrompt,  \* the messages of the most recent completion request
    call,        \* the most recent direct MemoryManager call
    hist,        \* per user: the context last written by
                 \* update_conversation_context, and the number of
                 \* conversations saved; the message lists the latest
                 \* _update_memory passed to its calls, in order
    capture      \* record_audio: its locals audio_data and recording, the
                 \* positions of the caller and of its two threads

vars == <<pc, turn, n_turns, state, store, clock, uuids, transcript, log,
          spoken, turnStart, lastPrompt, call, hist, capture>>

---------------------------------------------------------------------------
(* Bounds of the model *)

MaxTurns == 2
MaxUuids == 3
MaxCalls == 4
MaxExtraRecords == 1
MaxChunks == 5
MaxMessages == 3
MaxExtraChars == 50
MaxExtraMessages == 2

(* config.py *)

DEFAULT_USER_ID == "default-user"
MEMORY_NAMESPACE_USER_PROFILE == "user_profile"
MEMORY_NAMESPACE_BUSINESS == "business_knowledge"
MEMORY_NAMESPACE_CONVERSATION == "conversation_history"
MAX_CONVERSATION_HISTORY == 10

Kinds == {MEMORY_NAMESPACE_USER_PROFILE, MEMORY_NAMESPACE_BUSINESS,
          MEMORY_NAMESPACE_CONVERSATION}

Users == {DEFAULT_USER_ID, "other-user"}

(* The fixed key of the context record, and the identifiers uuid4 returns.  *)
(* uuid.uuid4() is modelled as handing out identifiers never returned       *)
(* before; no identifier is the string "context".                           *)

CONTEXT_KEY == "context"
UuidPool == <<"id1", "id2", "id3", "id4", "id5", "id6", "id7", "id8",
             "id9", "id10", "id11", "id12">>
uuid4(n) == UuidPool[n + 1]

Min(a, b) == IF a < b THEN a ELSE b

---------------------------------------------------------------------------
(* voice_io.py: text helpers *)

RECURSIVE CollapseNewlines(_)
CollapseNewlines(t) ==
    IF Len(t) <= 1 THEN t
    ELSE IF t[1] = "nl" /\ t[2] = "nl"
         THEN CollapseNewlines(Tail(t))
         ELSE <<t[1]>> \o CollapseNewlines(Tail(t))

ReplaceUrls(t) == [i \in DOMAIN t |-> IF t[i] = "url" THEN "link" ELSE t[i]]

RemoveEmphasis(t) == SelectSeq(t, LAMBDA x : x # "**")

optimize_for_speech(text) ==
    RemoveEmphasis(CollapseNewlines(ReplaceUrls(text)))

(* speak(text): nothing on empty text, else the text without "**" goes to   *)
(* text-to-speech; a failure there is caught inside speak.                  *)
speak(sp, text) ==
    IF text = <<>> THEN sp ELSE Append(sp, RemoveEmphasis(text))

---------------------------------------------------------------------------
(* schemas.py.  None is the string NONE for text fields and 0 for the       *)
(* datetime field; a list is a sequence; Dict[str, Any] is a sequence of    *)
(* <<key, value>> pairs.  model_dump gives the dict of all declared fields; *)
(* model_validate builds the object from a dict, filling the declared       *)
(* default for a field the dict does not have.                              *)

NONE == "<None>"

Field(v, f, default) == IF f \in DOMAIN v THEN v[f] ELSE default

VoicePreferencesDefault ==
    [preferred_voice |-> "default", speaking_rate |-> 1,
     verbosity_level |-> "medium", interruption_handling |-> "pause",
     confirmation_required |-> <<>>]

UserProfile_model_validate(v) ==
    [name |-> Field(v, "name", NONE),
     role |-> Field(v, "role", NONE),
     communication_preferences |-> Field(v, "communication_preferences", NONE),
     interests |-> Field(v, "interests", <<>>),
     expertise |-> Field(v, "expertise", <<>>),
     voice_preferences |-> Field(v, "voice_preferences", VoicePreferencesDefault)]

BusinessEntity_model_validate(v) ==
    [name |-> v.name,
     entity_type |-> v.entity_type,
     attributes |-> Field(v, "attributes", <<>>),
     relationships |-> Field(v, "relationships", <<>>)]

ConversationContextFields ==
    {"recent_topics", "unresolved_questions", "interrupted_flows",
     "last_interaction"}

ConversationContextDefault ==
    [recent_topics |-> <<>>, unresolved_questions |-> <<>>,
     interrupted_flows |-> <<>>, last_interaction |-> 0]

ConversationContext_model_dump(c) ==
    [f \in ConversationContextFields |-> c[f]]

ConversationContext_model_validate(v) ==
    [recent_topics |-> Field(v, "recent_topics", <<>>),
     unresolved_questions |-> Field(v, "unresolved_questions", <<>>),
     interrupted_flows |-> Field(v, "interrupted_flows", <<>>),
     last_interaction |-> Field(v, "last_interaction", 0)]

---------------------------------------------------------------------------
(* The store (langgraph InMemoryStore), by the contract MemoryManager       *)
(* consumes: a namespace (kind, user) holds items [key, value], keys unique *)
(* within the namespace, kept in insertion order.                           *)

EmptyStore == [k \in Kinds |-> [u \in Users |-> <<>>]]

Namespace(st, kind, user) == st[kind][user]

KeysOf(items) == {items[i].key : i \in DOMAIN items}

(* put(namespace, key, value): upsert *)
PutItems(items, key, value) ==
    IF key \in KeysOf(items)
    THEN [i \in DOMAIN items |->
            IF items[i].key = key THEN [key |-> key, value |-> value]
            ELSE items[i]]
    ELSE Append(items, [key |-> key, value |-> value])

StorePut(st, kind, user, key, value) ==
    [st EXCEPT ![kind][user] = PutItems(@, key, value)]

(* search(namespace): every record of the namespace *)
StoreSearchAll(st, kind, user) == Namespace(st, kind, user)

(* search(namespace, key=k): the records whose key is k *)
StoreSearchKey(st, kind, user, key) ==
    SelectSeq(Namespace(st, kind, user), LAMBDA it : it.key = key)

(* search(namespace, query=q, limit=n): the n most relevant records, best   *)
(* first.  Relevance is the store's: rank, an injection from result         *)
(* positions to the records of the namespace, is any it may produce.        *)
TopK(n, limit) ==
    {r \in [1..Min(limit, n) -> 1..n] :
        \A i, j \in DOMAIN r : i # j => r[i] # r[j]}

StoreSearchQuery(st, kind, user, rank) ==
    [i \in DOMAIN rank |-> Namespace(st, kind, user)[rank[i]]]

---------------------------------------------------------------------------
(* The extraction policy (langmem store manager), by its contract:          *)
(* invoke(messages, user_id) commits zero or more writes into its           *)
(* namespace.  With inserts disabled the one record of the namespace is     *)
(* rewritten (created under a stable key when there is none); with inserts  *)
(* enabled a record is added under a new identifier or an existing one is   *)
(* rewritten.                                                               *)

PROFILE_KEY == "default"

ProfileManagerInvoke(st, user, profile) ==
    LET existing == Namespace(st, MEMORY_NAMESPACE_USER_PROFILE, user)
    IN  StorePut(st, MEMORY_NAMESPACE_USER_PROFILE, user,
                 IF existing # <<>> THEN existing[1].key ELSE PROFILE_KEY,
                 profile)

BusinessManagerInvoke(st, user, key, entity) ==
    StorePut(st, MEMORY_NAMESPACE_BUSINESS, user, key, entity)

---------------------------------------------------------------------------
(* memory_store.py: MemoryManager.  An operation that writes returns the    *)
(* new store; an Optional result is a sequence of at most one element.      *)

PROFILE_LIMIT == 1
BUSINESS_LIMIT == 5
CONVERSATION_LIMIT == 3

(* get_user_profile that looks in the default user's namespace *)
get_user_profile_DefaultUser(st, user) ==
    LET results == StoreSearchAll(st, MEMORY_NAMESPACE_USER_PROFILE,
                                  DEFAULT_USER_ID)
    IN  IF results # <<>>
        THEN <<UserProfile_model_validate(results[1].value)>>
        ELSE <<>>

get_user_profile(st, user) ==
    LET results == StoreSearchAll(st, MEMORY_NAMESPACE_USER_PROFILE, user)
    IN  IF results # <<>>
        THEN <<UserProfile_model_validate(results[1].value)>>
        ELSE <<>>

(* update_user_profile through a manager that may insert: the extracted    *)
(* profile is added under a new identifier                                  *)
update_user_profile_WithInserts(st, user, profile) ==
    StorePut(st, MEMORY_NAMESPACE_USER_PROFILE, user,
             uuid4(Len(Namespace(st, MEMORY_NAMESPACE_USER_PROFILE, user))),
             profile)

(* profile_manager.invoke: the manager built with enable_inserts=False on   *)
(* (MEMORY_NAMESPACE_USER_PROFILE, user_id); profile is what it extracts    *)
update_user_profile(st, user, profile) ==
    ProfileManagerInvoke(st, user, profile)

get_business_entities(st, user) ==
    LET results == StoreSearchAll(st, MEMORY_NAMESPACE_BUSINESS, user)
    IN  [i \in DOMAIN results |-> BusinessEntity_model_validate(results[i].value)]

(* business_manager.invoke: the manager built with enable_inserts=True on   *)
(* (MEMORY_NAMESPACE_BUSINESS, user_id); key is the record it writes        *)
update_business_knowledge(st, user, key, entity) ==
    BusinessManagerInvoke(st, user, key, entity)

(* save_conversation keyed by a fixed name instead of a new identifier *)
save_conversation_FixedKey(st, messages, user, conversation_id, now) ==
    StorePut(st, MEMORY_NAMESPACE_CONVERSATION, user, "conversation",
             [timestamp |-> now, messages |-> messages])

save_conversation(st, messages, user, conversation_id, now) ==
    StorePut(st, MEMORY_NAMESPACE_CONVERSATION, user, conversation_id,
             [timestamp |-> now, messages |-> messages])

(* get_conversation_context that returns the default without storing it *)
get_conversation_context_NoPersist(st, user) ==
    LET results == StoreSearchKey(st, MEMORY_NAMESPACE_CONVERSATION, user,
                                  CONTEXT_KEY)
    IN  IF results # <<>>
        THEN [store |-> st,
              ret |-> ConversationContext_model_validate(results[1].value),
              puts |-> 0]
        ELSE [store |-> st, ret |-> ConversationContextDefault, puts |-> 0]

get_conversation_context(st, user) ==
    LET results == StoreSearchKey(st, MEMORY_NAMESPACE_CONVERSATION, user,
                                  CONTEXT_KEY)
    IN  IF results # <<>>
        THEN [store |-> st,
              ret |-> ConversationContext_model_validate(results[1].value),
              puts |-> 0]
        ELSE [store |-> StorePut(st, MEMORY_NAMESPACE_CONVERSATION, user,
                                 CONTEXT_KEY,
                                 ConversationContext_model_dump(
                                     ConversationContextDefault)),
              ret |-> ConversationContextDefault,
              puts |-> 1]

(* update_conversation_context that ignores user_id *)
update_conversation_context_DefaultUser(st, context, user) ==
    StorePut(st, MEMORY_NAMESPACE_CONVERSATION, DEFAULT_USER_ID, CONTEXT_KEY,
             ConversationContext_model_dump(context))

update_conversation_context(st, context, user) ==
    StorePut(st, MEMORY_NAMESPACE_CONVERSATION, user, CONTEXT_KEY,
             ConversationContext_model_dump(context))

(* Rankings with the conversation search issued without limit=3, so that   *)
(* the store's default limit of 10 applies                                 *)
Rankings_NoConversationLimit(st, user) ==
    [user_profile :
        TopK(Len(Namespace(st, MEMORY_NAMESPACE_USER_PROFILE, user)),
             PROFILE_LIMIT),
     business_knowledge :
        TopK(Len(Namespace(st, MEMORY_NAMESPACE_BUSINESS, user)),
             BUSINESS_LIMIT),
     conversation_history :
        TopK(Len(Namespace(st, MEMORY_NAMESPACE_CONVERSATION, user)), 10)]

(* The rankings the three store.search(namespace, query=query, limit=n)     *)
(* calls of search_memory may get back, one per kind.                       *)
Rankings(st, user) ==
    [user_profile :
        TopK(Len(Namespace(st, MEMORY_NAMESPACE_USER_PROFILE, user)),
             PROFILE_LIMIT),
     business_knowledge :
        TopK(Len(Namespace(st, MEMORY_NAMESPACE_BUSINESS, user)),
             BUSINESS_LIMIT),
     conversation_history :
        TopK(Len(Namespace(st, MEMORY_NAMESPACE_CONVERSATION, user)),
             CONVERSATION_LIMIT)]

(* search_memory without the key # "context" filter *)
search_memory_NoContextFilter(st, query, user, ranks) ==
    LET profile_results ==
            StoreSearchQuery(st, MEMORY_NAMESPACE_USER_PROFILE, user,
                             ranks.user_profile)
        business_results ==
            StoreSearchQuery(st, MEMORY_NAMESPACE_BUSINESS, user,
                             ranks.business_knowledge)
        conversation_results ==
            StoreSearchQuery(st, MEMORY_NAMESPACE_CONVERSATION, user,
                             ranks.conversation_history)
    IN  [user_profile |->
            [i \in DOMAIN profile_results |->
                UserProfile_model_validate(profile_results[i].value)],
         business_knowledge |->
            [i \in DOMAIN business_results |->
                BusinessEntity_model_validate(business_results[i].value)],
         conversation_history |->
            [i \in DOMAIN conversation_results |->
                conversation_results[i].value]]

search_memory(st, query, user, ranks) ==
    LET results == [user_profile |-> <<>>,
                    business_knowledge |-> <<>>,
                    conversation_history |-> <<>>]
        profile_results ==
            StoreSearchQuery(st, MEMORY_NAMESPACE_USER_PROFILE, user,
                             ranks.user_profile)
        business_results ==
            StoreSearchQuery(st, MEMORY_NAMESPACE_BUSINESS, user,
                             ranks.business_knowledge)
        conversation_results ==
            StoreSearchQuery(st, MEMORY_NAMESPACE_CONVERSATION, user,
                             ranks.conversation_history)
        kept == SelectSeq(conversation_results,
                          LAMBDA it : it.key # CONTEXT_KEY)
        r1 == IF profile_results # <<>>
              THEN [results EXCEPT !.user_profile =
                      [i \in DOMAIN profile_results |->
                         UserProfile_model_validate(profile_results[i].value)]]
              ELSE results
        r2 == IF business_results # <<>>
              THEN [r1 EXCEPT !.business_knowledge =
                      [i \in DOMAIN business_results |->
                         BusinessEntity_model_validate(business_results[i].value)]]
              ELSE r1
    IN  IF conversation_results # <<>>
        THEN [r2 EXCEPT !.conversation_history =
                [i \in DOMAIN kept |-> kept[i].value]]
        ELSE r2

---------------------------------------------------------------------------
(* Inputs *)

UserMessage(text) == [role |-> "user", content |-> text]
AssistantMessage(text) == [role |-> "assistant", content |-> text]

Transcripts == {<<>>, <<"hi">>, <<"my", "name">>}
Completions == {<<"ok">>, <<"**", "see", "url">>}

Profiles ==
    {[name |-> "Aaron", role |-> "developer",
      communication_preferences |-> NONE,
      interests |-> <<"hiking", "chess">>, expertise |-> <<>>,
      voice_preferences |-> VoicePreferencesDefault]}

Entities ==
    {[name |-> "Apollo", entity_type |-> "project",
      attributes |-> << <<"status", "active">> >>, relationships |-> <<>>]}

Contexts ==
    {ConversationContextDefault,
     [recent_topics |-> <<"billing">>, unresolved_questions |-> <<"when">>,
      interrupted_flows |-> <<>>, last_interaction |-> 1]}

MessageLists ==
    {<<UserMessage(<<"hi">>)>>,
     <<UserMessage(<<"hi">>), AssistantMessage(<<"ok">>)>>}

Queries == {<<"hi">>}

---------------------------------------------------------------------------
(* Initial values *)

NoCall == [op |-> "none", user |-> DEFAULT_USER_ID, arg |-> <<>>,
           ret |-> <<>>, puts |-> 0, before |-> EmptyStore, n |-> 0,
           prev |-> [op |-> "none", user |-> DEFAULT_USER_ID, arg |-> <<>>,
                     ret |-> <<>>]]

(* record_audio not called: no thread started, nothing recorded.           *)
(* audio_chunk is the chunk last read from the stream (their number so    *)
(* far), read what the caller took from audio_data, stopped_at the number *)
(* of chunks read when the flag was cleared.                               *)
NoCapture == [main |-> "idle", recorder |-> "not_started",
              stopper |-> "not_started", recording |-> TRUE,
              audio_data |-> <<>>, audio_chunk |-> 0, read |-> <<>>,
              stopped_at |-> 0]

(* Nothing written or passed yet.  shared tells whether the store and the  *)
(* graph keep the list object they are handed (TRUE) or hold a copy; heard *)
(* counts the turns whose transcription was not empty.                     *)
NoHistory == [written |-> [u \in Users |-> <<>>],
              saves |-> [u \in Users |-> 0],
              passed |-> <<>>,
              shared |-> FALSE,
              heard |-> 0]

(* run_assistant: state = {"messages": [], "user_id": user_id}.  keys is    *)
(* the set of keys the dict has; a key it does not have holds a placeholder *)
InitialState ==
    [messages |-> <<>>, user_id |-> DEFAULT_USER_ID,
     memory_search_results |-> [k \in {} |-> <<>>],
     spoken_response |-> <<>>,
     keys |-> {"messages", "user_id"}]

Init ==
    /\ pc = "run_assistant"
    /\ turn = 0
    /\ n_turns \in 1..MaxTurns
    /\ state = InitialState
    /\ store = EmptyStore
    /\ clock = 0
    /\ uuids = 0
    /\ transcript = <<>>
    /\ log = <<>>
    /\ spoken = <<>>
    /\ turnStart = InitialState
    /\ lastPrompt = <<>>
    /\ call = NoCall
    /\ hist \in {[NoHistory EXCEPT !.shared = b] : b \in BOOLEAN}
    /\ capture = NoCapture

pipelineVars == <<pc, turn, n_turns, state, transcript, log, spoken,
                  turnStart, lastPrompt, capture>>

---------------------------------------------------------------------------
(* agent_nodes.py: the four nodes, as functions of the state dict *)

FALLBACK_PROMPT == <<"I didn't catch that. Could you please try again?">>

SetKey(s, key) == [s EXCEPT !.keys = @ \cup {key}]

(* voice_input with messages rebuilt from the new message alone *)
voice_input_DropsEarlier(s, sp, transcription) ==
    IF transcription = <<>>
    THEN [state |-> s, spoken |-> speak(sp, FALLBACK_PROMPT)]
    ELSE [state |-> [s EXCEPT !.messages = <<UserMessage(transcription)>>],
          spoken |-> sp]

(* voice_input that returns on an empty transcription without speaking *)
voice_input_NoPrompt(s, sp, transcription) ==
    IF transcription = <<>>
    THEN [state |-> s, spoken |-> sp]
    ELSE [state |-> [s EXCEPT !.messages = Append(@, UserMessage(transcription))],
          spoken |-> sp]

voice_input(s, sp, transcription) ==
    IF transcription = <<>>
    THEN [state |-> s, spoken |-> speak(sp, FALLBACK_PROMPT)]
    ELSE [state |-> [s EXCEPT !.messages = Append(@, UserMessage(transcription))],
          spoken |-> sp]

(* for message in reversed(messages): the content of the last user message, *)
(* <<>> (None) when there is none                                           *)
RECURSIVE LastUserMessage(_)
LastUserMessage(messages) ==
    IF messages = <<>> THEN <<>>
    ELSE IF messages[Len(messages)].role = "user"
         THEN messages[Len(messages)].content
         ELSE LastUserMessage(SubSeq(messages, 1, Len(messages) - 1))

EmptyDict == [k \in {} |-> <<>>]

(* search_memory (the node): whether it reaches MemoryManager.search_memory *)
SearchesMemory(s) ==
    /\ s.messages # <<>>
    /\ LastUserMessage(s.messages) # <<>>

(* search_memory (the node) with MemoryManager() built without the         *)
(* session's store, which then searches an empty store of its own          *)
search_memory_node_OwnStore(s, st, ranks) ==
    IF ~SearchesMemory(s)
    THEN SetKey([s EXCEPT !.memory_search_results = EmptyDict],
                "memory_search_results")
    ELSE SetKey([s EXCEPT !.memory_search_results =
                    search_memory(EmptyStore, LastUserMessage(s.messages),
                                  s.user_id, [k \in Kinds |-> <<>>])],
                "memory_search_results")

search_memory_node(s, st, ranks) ==
    IF ~SearchesMemory(s)
    THEN SetKey([s EXCEPT !.memory_search_results = EmptyDict],
                "memory_search_results")
    ELSE SetKey([s EXCEPT !.memory_search_results =
                    search_memory(st, LastUserMessage(s.messages), s.user_id,
                                  ranks)],
                "memory_search_results")

(* the whole message list instead of its last MAX_CONVERSATION_HISTORY *)
RecentMessages_All(messages) == messages

(* messages[-MAX_CONVERSATION_HISTORY:] *)
RecentMessages(messages) ==
    SubSeq(messages,
           IF Len(messages) > MAX_CONVERSATION_HISTORY
           THEN Len(messages) - MAX_CONVERSATION_HISTORY + 1 ELSE 1,
           Len(messages))

MemoryOps == <<"update_user_profile", "update_business_knowledge",
               "save_conversation">>

(* _update_memory handed the prompt window, the last                      *)
(* MAX_CONVERSATION_HISTORY messages, instead of the whole list            *)
update_memory_PromptWindow(st, messages, user, o, uu, now) ==
    LET window == RecentMessages(messages)
        afterProfile ==
            IF o.profile = "write"
            THEN update_user_profile(st, user, o.profileValue) ELSE st
        afterBusiness ==
            IF o.business = "write"
            THEN update_business_knowledge(afterProfile, user,
                                           o.businessKey, o.entity)
            ELSE afterProfile
        inserted == o.business = "write" /\ o.businessKey = uuid4(uu)
        uu2 == IF inserted THEN uu + 1 ELSE uu
    IN  IF o.profile = "raise"
        THEN [store |-> st, uuids |-> uu, clock |-> now, raised |-> TRUE,
              calls |-> SubSeq(MemoryOps, 1, 1), passed |-> <<window>>]
        ELSE IF o.business = "raise"
        THEN [store |-> afterProfile, uuids |-> uu, clock |-> now,
              raised |-> TRUE, calls |-> SubSeq(MemoryOps, 1, 2),
              passed |-> <<window, window>>]
        ELSE IF o.save = "raise"
        THEN [store |-> afterBusiness, uuids |-> uu2 + 1, clock |-> now + 1,
              raised |-> TRUE, calls |-> MemoryOps,
              passed |-> <<window, window, window>>]
        ELSE [store |-> save_conversation(afterBusiness, window, user,
                                          uuid4(uu2), now + 1),
              uuids |-> uu2 + 1, clock |-> now + 1, raised |-> FALSE,
              calls |-> MemoryOps,
              passed |-> <<window, window, window>>]

(* _update_memory: update_user_profile, update_business_knowledge and       *)
(* save_conversation in this order; a call that raises ends the sequence.   *)
(* o gives what each collaborator does: o.profile and o.business are        *)
(* "raise", "none" or "write", o.save is "raise" or "ok".                   *)
update_memory(st, messages, user, o, uu, now) ==
    LET afterProfile ==
            IF o.profile = "write"
            THEN update_user_profile(st, user, o.profileValue) ELSE st
        afterBusiness ==
            IF o.business = "write"
            THEN update_business_knowledge(afterProfile, user,
                                           o.businessKey, o.entity)
            ELSE afterProfile
        inserted == o.business = "write" /\ o.businessKey = uuid4(uu)
        uu2 == IF inserted THEN uu + 1 ELSE uu
    IN  IF o.profile = "raise"
        THEN [store |-> st, uuids |-> uu, clock |-> now, raised |-> TRUE,
              calls |-> SubSeq(MemoryOps, 1, 1), passed |-> <<messages>>]
        ELSE IF o.business = "raise"
        THEN [store |-> afterProfile, uuids |-> uu, clock |-> now,
              raised |-> TRUE, calls |-> SubSeq(MemoryOps, 1, 2),
              passed |-> <<messages, messages>>]
        ELSE IF o.save = "raise"
        THEN [store |-> afterBusiness, uuids |-> uu2 + 1, clock |-> now + 1,
              raised |-> TRUE, calls |-> MemoryOps,
              passed |-> <<messages, messages, messages>>]
        ELSE [store |-> save_conversation(afterBusiness, messages, user,
                                          uuid4(uu2), now + 1),
              uuids |-> uu2 + 1, clock |-> now + 1, raised |-> FALSE,
              calls |-> MemoryOps,
              passed |-> <<messages, messages, messages>>]

(* What the collaborators of _update_memory may do in store st *)
MemoryOutcomes(st, user, uu) ==
    [profile : {"raise", "none", "write"},
     profileValue : Profiles,
     business : {"raise", "none", "write"},
     businessKey : KeysOf(Namespace(st, MEMORY_NAMESPACE_BUSINESS, user))
                      \cup {uuid4(uu)},
     entity : Entities,
     save : {"raise", "ok"}]

(* generate_response after the completion call returned response_content *)
generate_response(s, response_content) ==
    SetKey([s EXCEPT !.messages = Append(@, AssistantMessage(response_content)),
                     !.spoken_response = optimize_for_speech(response_content)],
           "spoken_response")

(* voice_output: speak(spoken_response) when state.get gives a non-empty one *)
voice_output(s, sp) ==
    IF "spoken_response" \in s.keys /\ s.spoken_response # <<>>
    THEN speak(sp, s.spoken_response)
    ELSE sp

---------------------------------------------------------------------------
(* agent_nodes.py: _format_memory_for_prompt.  formatted is a sequence of  *)
(* lines; a line is a sequence whose elements are the literal pieces of    *)
(* the f-string, one element each, and the characters of the formatted     *)
(* value.  A message content is a sequence of characters here, so that     *)
(* len(content) and content[:100] are Len and SubSeq.                      *)

TRUNCATE_AT == 100
ELLIPSIS == <<".", ".", ".">>

(* str.capitalize() on the words that occur *)
Capitalized ==
    [user |-> "User", assistant |-> "Assistant", system |-> "System",
     project |-> "Project", team |-> "Team", person |-> "Person"]

capitalize(w) == IF w \in DOMAIN Capitalized THEN Capitalized[w] ELSE w

(* timestamp.strftime('%Y-%m-%d %H:%M'): the timestamp, a number of        *)
(* seconds, to the minute                                                  *)
strftime(t) == t \div 60

(* ', '.join(words) *)
RECURSIVE JoinWords(_)
JoinWords(words) ==
    IF words = <<>> THEN <<>>
    ELSE IF Len(words) = 1 THEN <<words[1]>>
    ELSE <<words[1], ", ">> \o JoinWords(Tail(words))

(* memory_results.get(kind), None as the empty sequence *)
GetResults(memory_results, kind) ==
    IF kind \in DOMAIN memory_results THEN memory_results[kind] ELSE <<>>

FormatProfile(memory_results) ==
    LET found == GetResults(memory_results, MEMORY_NAMESPACE_USER_PROFILE)
        profile == found[1]
    IN  IF found = <<>> THEN <<>>
        ELSE << <<"USER PROFILE:">> >>
             \o (IF profile.name \notin {NONE, ""}
                 THEN << <<"- Name: ", profile.name>> >> ELSE <<>>)
             \o (IF profile.role \notin {NONE, ""}
                 THEN << <<"- Role: ", profile.role>> >> ELSE <<>>)
             \o (IF profile.interests # <<>>
                 THEN << <<"- Interests: ">> \o JoinWords(profile.interests) >>
                 ELSE <<>>)
             \o (IF profile.expertise # <<>>
                 THEN << <<"- Expertise: ">> \o JoinWords(profile.expertise) >>
                 ELSE <<>>)

FormatEntity(entity) ==
    << <<"- ", capitalize(entity.entity_type), ": ", entity.name>> >>
    \o [i \in DOMAIN entity.attributes |->
          <<"  * ", entity.attributes[i][1], ": ", entity.attributes[i][2]>>]

RECURSIVE FormatEntities(_)
FormatEntities(entities) ==
    IF entities = <<>> THEN <<>>
    ELSE FormatEntity(entities[1]) \o FormatEntities(Tail(entities))

FormatBusiness(memory_results) ==
    LET found == GetResults(memory_results, MEMORY_NAMESPACE_BUSINESS)
    IN  IF found = <<>> THEN <<>>
        ELSE << <<"nl", "BUSINESS KNOWLEDGE:">> >> \o FormatEntities(found)

(* conversation["messages"][-2:] *)
LastExchange(messages) ==
    SubSeq(messages, IF Len(messages) > 2 THEN Len(messages) - 1 ELSE 1,
           Len(messages))

(* the message line with the content cut so that the line's content is     *)
(* never longer than 100 characters, the ellipsis included                 *)
FormatMessage_CutsTo100(msg) ==
    <<"  * ", capitalize(msg.role), ": ">>
    \o (IF Len(msg.content) > TRUNCATE_AT
        THEN SubSeq(msg.content, 1, TRUNCATE_AT - Len(ELLIPSIS)) \o ELLIPSIS
        ELSE msg.content)

FormatMessage(msg) ==
    <<"  * ", capitalize(msg.role), ": ">>
    \o (IF Len(msg.content) > TRUNCATE_AT
        THEN SubSeq(msg.content, 1, TRUNCATE_AT) \o ELLIPSIS
        ELSE msg.content)

FormatConversation(conversation) ==
    << <<"- Date: ", strftime(conversation.timestamp)>> >>
    \o (IF "messages" \in DOMAIN conversation
        THEN [i \in DOMAIN LastExchange(conversation.messages) |->
                FormatMessage(LastExchange(conversation.messages)[i])]
        ELSE <<>>)

RECURSIVE FormatConversations(_)
FormatConversations(conversations) ==
    IF conversations = <<>> THEN <<>>
    ELSE FormatConversation(conversations[1])
         \o FormatConversations(Tail(conversations))

FormatHistory(memory_results) ==
    LET found == GetResults(memory_results, MEMORY_NAMESPACE_CONVERSATION)
    IN  IF found = <<>> THEN <<>>
        ELSE << <<"nl", "RELEVANT PAST CONVERSATIONS:">> >>
             \o FormatConversations(found)

(* "\n".join(formatted) *)
RECURSIVE JoinLines(_)
JoinLines(formatted) ==
    IF formatted = <<>> THEN <<>>
    ELSE IF Len(formatted) = 1 THEN formatted[1]
    ELSE formatted[1] \o <<"nl">> \o JoinLines(Tail(formatted))

format_memory_for_prompt(memory_results) ==
    LET formatted == FormatProfile(memory_results)
                     \o FormatBusiness(memory_results)
                     \o FormatHistory(memory_results)
    IN  [formatted |-> formatted, text |-> JoinLines(formatted)]

(* generate_response: the system message and the list handed to            *)
(* llm.invoke, [system_message, *messages[-MAX_CONVERSATION_HISTORY:]]     *)
SystemMessage(s) ==
    [role |-> "system",
     content |->
        <<"You are a helpful voice assistant ...", "Memory context:", "nl">>
        \o format_memory_for_prompt(
               IF "memory_search_results" \in s.keys
               THEN s.memory_search_results ELSE EmptyDict).text
        \o <<"nl", "User ID: ", s.user_id>>]

CompletionRequest(s) == <<SystemMessage(s)>> \o RecentMessages(s.messages)

---------------------------------------------------------------------------
(* One list object behind the state and the saved conversations.           *)
(* run_assistant creates one list (main.py:76); voice_input and            *)
(* generate_response append to the list they find in the state, and        *)
(* save_conversation hands that list to store.put.  A store that keeps the *)
(* object it is handed, under a graph that hands the nodes the object of   *)
(* the state, holds in every conversation saved in the session the list    *)
(* the nodes go on appending to.  Whether they keep the object or a copy   *)
(* is theirs to choose, and is fixed for a session (hist.shared).          *)

(* The conversations a user's namespace holds, all showing messages *)
SharedList(st, user, messages) ==
    [st EXCEPT ![MEMORY_NAMESPACE_CONVERSATION][user] =
        [i \in DOMAIN @ |->
            IF @[i].key = CONTEXT_KEY THEN @[i]
            ELSE [@[i] EXCEPT !.value.messages = messages]]]

(* Search results found earlier: their conversation values are the very *)
(* dicts the store holds                                                 *)
SharedResults(results, messages) ==
    IF MEMORY_NAMESPACE_CONVERSATION \in DOMAIN results
    THEN [results EXCEPT ![MEMORY_NAMESPACE_CONVERSATION] =
             [i \in DOMAIN @ |-> [@[i] EXCEPT !.messages = messages]]]
    ELSE results

(* The store after a node left the state s with its list appended to *)
KeepsList(h, st, s) ==
    IF h.shared THEN SharedList(st, s.user_id, s.messages) ELSE st

(* The state s as the nodes see it after the append *)
SeesList(h, s) ==
    IF h.shared
    THEN [s EXCEPT !.memory_search_results = SharedResults(@, s.messages)]
    ELSE s

---------------------------------------------------------------------------
(* Spec: run_assistant driving the compiled graph                           *)
(* START -> voice_input -> search_memory -> generate_response ->            *)
(* voice_output -> END, one node per step.  A collaborator that raises      *)
(* (store search, completion, memory update) ends run_assistant: no node    *)
(* and not run_assistant catches it.  log ends with the call that raised.   *)

memoryVars == <<store, clock, uuids>>

(* run_assistant invoking the graph on the initial state in every turn    *)
(* instead of on the previous turn's result                                *)
RunTurn_FreshState ==
    /\ pc = "run_assistant"
    /\ turn < n_turns
    /\ turn' = turn + 1
    /\ pc' = "voice_input"
    /\ state' = InitialState
    /\ turnStart' = InitialState
    /\ transcript' = <<>>
    /\ log' = <<>>
    /\ spoken' = <<>>
    /\ UNCHANGED <<capture, n_turns, memoryVars, lastPrompt, call, hist>>

RunTurn ==
    /\ pc = "run_assistant"
    /\ turn < n_turns
    /\ turn' = turn + 1
    /\ pc' = "voice_input"
    /\ turnStart' = state
    /\ transcript' = <<>>
    /\ log' = <<>>
    /\ spoken' = <<>>
    /\ UNCHANGED <<capture, n_turns, state, memoryVars, lastPrompt, call, hist>>

SessionEnds ==
    /\ pc = "run_assistant"
    /\ turn = n_turns
    /\ pc' = "done"
    /\ UNCHANGED <<capture, turn, n_turns, state, memoryVars, transcript, log, spoken,
                   turnStart, lastPrompt, call, hist>>

VoiceInput ==
    /\ pc = "voice_input"
    /\ \E transcription \in Transcripts :
          LET r == voice_input(state, spoken, transcription)
          IN  /\ transcript' = transcription
              /\ state' = SeesList(hist, r.state)
              /\ store' = KeepsList(hist, store, r.state)
              /\ spoken' = r.spoken
              /\ log' = IF r.spoken # spoken
                        THEN log \o <<"record_audio", "speak">>
                        ELSE Append(log, "record_audio")
              /\ hist' = IF transcription # <<>>
                         THEN [hist EXCEPT !.heard = @ + 1] ELSE hist
    /\ pc' = "search_memory"
    /\ UNCHANGED <<capture, turn, n_turns, clock, uuids, turnStart, lastPrompt,
                   call>>

SearchMemory ==
    /\ pc = "search_memory"
    /\ \E ranks \in Rankings(store, state.user_id) :
          state' = search_memory_node(state, store, ranks)
    /\ log' = IF SearchesMemory(state)
              THEN Append(log, "search_memory") ELSE log
    /\ pc' = "generate_response"
    /\ UNCHANGED <<capture, turn, n_turns, memoryVars, transcript, spoken, turnStart,
                   lastPrompt, call, hist>>

SearchMemoryRaises ==
    /\ pc = "search_memory"
    /\ SearchesMemory(state)
    /\ log' = Append(log, "search_memory")
    /\ pc' = "raised"
    /\ UNCHANGED <<capture, turn, n_turns, state, memoryVars, transcript, spoken,
                   turnStart, lastPrompt, call, hist>>

GenerateResponseSkips ==
    /\ pc = "generate_response"
    /\ state.messages = <<>>
    /\ pc' = "voice_output"
    /\ UNCHANGED <<capture, turn, n_turns, state, memoryVars, transcript, log, spoken,
                   turnStart, lastPrompt, call, hist>>

GenerateResponse ==
    /\ pc = "generate_response"
    /\ state.messages # <<>>
    /\ lastPrompt' = CompletionRequest(state)
    /\ \E response_content \in Completions :
          LET s2 == generate_response(state, response_content)
          IN  \E o \in MemoryOutcomes(store, state.user_id, uuids) :
                 LET m == update_memory(store, s2.messages, state.user_id, o,
                                        uuids, clock)
                 IN  /\ store' = KeepsList(hist, m.store, s2)
                     /\ uuids' = m.uuids
                     /\ clock' = m.clock
                     /\ log' = log \o <<"llm.invoke">> \o m.calls
                     /\ hist' = IF m.raised
                                THEN [hist EXCEPT !.passed = m.passed]
                                ELSE [hist EXCEPT
                                         !.saves[state.user_id] = @ + 1,
                                         !.passed = m.passed]
                     /\ IF m.raised
                        THEN /\ state' = SeesList(hist,
                                          [state EXCEPT
                                              !.messages = s2.messages])
                             /\ pc' = "raised"
                        ELSE /\ state' = SeesList(hist, s2)
                             /\ pc' = "voice_output"
    /\ UNCHANGED <<capture, turn, n_turns, transcript, spoken, turnStart, call>>

(* a failed completion call caught inside generate_response, which then   *)
(* returns the state it was given and lets the graph go on                 *)
GenerateResponseRaises_Continues ==
    /\ pc = "generate_response"
    /\ state.messages # <<>>
    /\ lastPrompt' = CompletionRequest(state)
    /\ log' = Append(log, "llm.invoke")
    /\ pc' = "voice_output"
    /\ UNCHANGED <<capture, turn, n_turns, state, memoryVars, transcript,
                   spoken, turnStart, call, hist>>

GenerateResponseRaises ==
    /\ pc = "generate_response"
    /\ state.messages # <<>>
    /\ lastPrompt' = CompletionRequest(state)
    /\ log' = Append(log, "llm.invoke")
    /\ pc' = "raised"
    /\ UNCHANGED <<capture, turn, n_turns, state, memoryVars, transcript, spoken,
                   turnStart, call, hist>>

VoiceOutput ==
    /\ pc = "voice_output"
    /\ spoken' = voice_output(state, spoken)
    /\ log' = IF voice_output(state, spoken) # spoken
              THEN Append(log, "speak") ELSE log
    /\ pc' = "run_assistant"
    /\ UNCHANGED <<capture, turn, n_turns, state, memoryVars, transcript, turnStart,
                   lastPrompt, call, hist>>

Next ==
    \/ RunTurn
    \/ SessionEnds
    \/ VoiceInput
    \/ SearchMemory
    \/ SearchMemoryRaises
    \/ GenerateResponseSkips
    \/ GenerateResponse
    \/ GenerateResponseRaises
    \/ VoiceOutput

Spec == Init /\ [][Next]_vars

---------------------------------------------------------------------------
(* SpecMM: a client calling the MemoryManager methods directly on one store *)

InitMM ==
    /\ pc = "api"
    /\ turn = 0
    /\ n_turns = 0
    /\ state = InitialState
    /\ store = EmptyStore
    /\ clock = 0
    /\ uuids = 0
    /\ transcript = <<>>
    /\ log = <<>>
    /\ spoken = <<>>
    /\ turnStart = InitialState
    /\ lastPrompt = <<>>
    /\ call = NoCall
    /\ hist = NoHistory
    /\ capture = NoCapture

Called(op, user, arg, ret, puts) ==
    [op |-> op, user |-> user, arg |-> arg, ret |-> ret, puts |-> puts,
     before |-> store, n |-> call.n + 1,
     prev |-> [op |-> call.op, user |-> call.user, arg |-> call.arg,
               ret |-> call.ret]]

MM_get_user_profile ==
    \E u \in Users :
        /\ call.n < MaxCalls
        /\ call' = Called("get_user_profile", u, <<>>,
                          get_user_profile(store, u), 0)
        /\ UNCHANGED <<store, clock, uuids, pipelineVars, hist>>

MM_update_user_profile ==
    \E u \in Users, p \in Profiles :
        /\ call.n < MaxCalls
        /\ store' = update_user_profile(store, u, p)
        /\ call' = Called("update_user_profile", u, p, <<>>, 1)
        /\ UNCHANGED <<clock, uuids, pipelineVars, hist>>

MM_get_business_entities ==
    \E u \in Users :
        /\ call.n < MaxCalls
        /\ call' = Called("get_business_entities", u, <<>>,
                          get_business_entities(store, u), 0)
        /\ UNCHANGED <<store, clock, uuids, pipelineVars, hist>>

MM_update_business_knowledge ==
    \E u \in Users, e \in Entities :
        /\ call.n < MaxCalls
        /\ \E k \in KeysOf(Namespace(store, MEMORY_NAMESPACE_BUSINESS, u))
                    \cup (IF uuids < MaxUuids THEN {uuid4(uuids)} ELSE {}) :
              /\ store' = update_business_knowledge(store, u, k, e)
              /\ uuids' = IF k = uuid4(uuids) THEN uuids + 1 ELSE uuids
        /\ call' = Called("update_business_knowledge", u, e, <<>>, 1)
        /\ UNCHANGED <<clock, pipelineVars, hist>>

MM_save_conversation ==
    \E u \in Users, m \in MessageLists :
        /\ call.n < MaxCalls
        /\ uuids < MaxUuids
        /\ store' = save_conversation(store, m, u, uuid4(uuids), clock + 1)
        /\ clock' = clock + 1
        /\ uuids' = uuids + 1
        /\ call' = Called("save_conversation", u, m, uuid4(uuids), 1)
        /\ hist' = [hist EXCEPT !.saves[u] = @ + 1]
        /\ UNCHANGED pipelineVars

MM_get_conversation_context ==
    \E u \in Users :
        LET r == get_conversation_context(store, u)
        IN  /\ call.n < MaxCalls
            /\ store' = r.store
            /\ call' = Called("get_conversation_context", u, <<>>, r.ret,
                              r.puts)
            /\ UNCHANGED <<clock, uuids, pipelineVars, hist>>

MM_update_conversation_context ==
    \E u \in Users, c \in Contexts :
        /\ call.n < MaxCalls
        /\ store' = update_conversation_context(store, c, u)
        /\ call' = Called("update_conversation_context", u, c, <<>>, 1)
        /\ hist' = [hist EXCEPT !.written[u] = <<c>>]
        /\ UNCHANGED <<clock, uuids, pipelineVars>>

MM_search_memory ==
    \E u \in Users, q \in Queries :
        \E ranks \in Rankings(store, u) :
            /\ call.n < MaxCalls
            /\ call' = Called("search_memory", u, q,
                              search_memory(store, q, u, ranks), 0)
            /\ UNCHANGED <<store, clock, uuids, pipelineVars, hist>>

NextMM ==
    \/ MM_get_user_profile
    \/ MM_update_user_profile
    \/ MM_get_business_entities
    \/ MM_update_business_knowledge
    \/ MM_save_conversation
    \/ MM_get_conversation_context
    \/ MM_update_conversation_context
    \/ MM_search_memory

SpecMM == InitMM /\ [][NextMM]_vars

---------------------------------------------------------------------------
(* SpecSearch: search_memory applied to stores of every shape.  One kind at *)
(* a time holds up to MaxExtraRecords records more than search_memory asks  *)
(* for; the conversation namespace holds the context record at any position *)
(* or not at all; another user's namespaces hold records of their own.      *)

SearchLimit(kind) ==
    IF kind = MEMORY_NAMESPACE_USER_PROFILE THEN PROFILE_LIMIT
    ELSE IF kind = MEMORY_NAMESPACE_BUSINESS THEN BUSINESS_LIMIT
    ELSE CONVERSATION_LIMIT

DrawnSizes(kind, focus) ==
    IF kind = focus THEN 0..(SearchLimit(kind) + MaxExtraRecords) ELSE 0..1

InsertAt(seq, pos, x) ==
    SubSeq(seq, 1, pos - 1) \o <<x>> \o SubSeq(seq, pos, Len(seq))

DrawnContext ==
    [key |-> CONTEXT_KEY,
     value |-> ConversationContext_model_dump(
                  CHOOSE c \in Contexts : c # ConversationContextDefault)]

DrawnProfiles(n) ==
    [i \in 1..n |-> [key |-> IF i = 1 THEN PROFILE_KEY ELSE uuid4(i),
                     value |-> CHOOSE p \in Profiles : TRUE]]

DrawnEntities(n) ==
    [i \in 1..n |-> [key |-> uuid4(i), value |-> CHOOSE e \in Entities : TRUE]]

DrawnConversations(n, cpos) ==
    LET logged == [i \in 1..n |->
                     [key |-> uuid4(i),
                      value |-> [timestamp |-> i,
                                 messages |-> <<UserMessage(<<"hi">>),
                                                AssistantMessage(<<"ok">>)>>]]]
    IN  IF cpos = 0 THEN logged ELSE InsertAt(logged, cpos, DrawnContext)

OtherUserRecords ==
    [user_profile |->
        <<[key |-> PROFILE_KEY,
           value |-> [name |-> "Blake", role |-> "manager"]]>>,
     business_knowledge |->
        <<[key |-> "id9",
           value |-> [name |-> "Zephyr", entity_type |-> "team"]]>>,
     conversation_history |->
        <<[key |-> "id10",
           value |-> [timestamp |-> 0,
                      messages |-> <<UserMessage(<<"my", "name">>)>>]]>>]

DrawnStore(np, nb, nc, cpos) ==
    [k \in Kinds |->
        [u \in Users |->
            IF u # DEFAULT_USER_ID THEN OtherUserRecords[k]
            ELSE IF k = MEMORY_NAMESPACE_USER_PROFILE THEN DrawnProfiles(np)
            ELSE IF k = MEMORY_NAMESPACE_BUSINESS THEN DrawnEntities(nb)
            ELSE DrawnConversations(nc, cpos)]]

InitSearch ==
    /\ pc = "api"
    /\ turn = 0
    /\ n_turns = 0
    /\ state = InitialState
    /\ \E focus \in Kinds :
         \E np \in DrawnSizes(MEMORY_NAMESPACE_USER_PROFILE, focus),
            nb \in DrawnSizes(MEMORY_NAMESPACE_BUSINESS, focus),
            nc \in DrawnSizes(MEMORY_NAMESPACE_CONVERSATION, focus) :
            \E cpos \in 0..(nc + 1) :
               /\ store = DrawnStore(np, nb, nc, cpos)
               /\ hist = [written |-> [u \in Users |-> <<>>],
                          saves |-> [u \in Users |->
                                       IF u = DEFAULT_USER_ID THEN nc ELSE 1],
                          passed |-> <<>>,
                          shared |-> FALSE,
                          heard |-> 0]
    /\ clock = 0
    /\ uuids = 0
    /\ transcript = <<>>
    /\ log = <<>>
    /\ spoken = <<>>
    /\ turnStart = InitialState
    /\ lastPrompt = <<>>
    /\ call = NoCall
    /\ capture = NoCapture

Search_search_memory ==
    \E u \in Users, q \in Queries :
        \E ranks \in Rankings(store, u) :
            /\ call.n = 0
            /\ call' = Called("search_memory", u, q,
                              search_memory(store, q, u, ranks), 0)
            /\ UNCHANGED <<store, clock, uuids, pipelineVars, hist>>

NextSearch == Search_search_memory

SpecSearch == InitSearch /\ [][NextSearch]_vars

---------------------------------------------------------------------------
(* SpecCapture: one call of record_audio, statement by statement, with its *)
(* recording thread and its stop thread.  audio_data holds the chunks in   *)
(* the order appended (chunk i is the i-th read of the stream); reads of   *)
(* the stream are capped at MaxChunks, after which the recording thread    *)
(* waits for the flag to be cleared.                                       *)

captureFrame == <<pc, turn, n_turns, state, store, clock, uuids, log,
                  spoken, turnStart, lastPrompt, call, hist>>

InitCapture ==
    /\ pc = "record_audio"
    /\ turn = 0
    /\ n_turns = 0
    /\ state = InitialState
    /\ store = EmptyStore
    /\ clock = 0
    /\ uuids = 0
    /\ transcript = <<>>
    /\ log = <<>>
    /\ spoken = <<>>
    /\ turnStart = InitialState
    /\ lastPrompt = <<>>
    /\ call = NoCall
    /\ hist = NoHistory
    /\ capture = [NoCapture EXCEPT !.main = "start_recording"]

(* recording_thread.start() *)
StartRecordingThread ==
    /\ capture.main = "start_recording"
    /\ capture' = [capture EXCEPT !.main = "start_stop",
                                  !.recorder = "open"]
    /\ UNCHANGED <<captureFrame, transcript>>

(* stop_thread.start() *)
StartStopThread ==
    /\ capture.main = "start_stop"
    /\ capture' = [capture EXCEPT !.main = "join_stop",
                                  !.stopper = "input"]
    /\ UNCHANGED <<captureFrame, transcript>>

(* stop_thread.join() *)
JoinStopThread ==
    /\ capture.main = "join_stop"
    /\ capture.stopper = "terminated"
    /\ capture' = [capture EXCEPT !.main = "join_recording"]
    /\ UNCHANGED <<captureFrame, transcript>>

(* the caller going on to read audio_data without recording_thread.join() *)
JoinRecordingThread_NoWait ==
    /\ capture.main = "join_recording"
    /\ capture' = [capture EXCEPT !.main = "read"]
    /\ UNCHANGED <<captureFrame, transcript>>

(* recording_thread.join() *)
JoinRecordingThread ==
    /\ capture.main = "join_recording"
    /\ capture.recorder = "terminated"
    /\ capture' = [capture EXCEPT !.main = "read"]
    /\ UNCHANGED <<captureFrame, transcript>>

(* if not audio_data: return "" / np.concatenate(audio_data) *)
ReadAudioData ==
    /\ capture.main = "read"
    /\ capture' = [capture EXCEPT !.main = "transcribe",
                                  !.read = capture.audio_data]
    /\ UNCHANGED <<captureFrame, transcript>>

(* return "" for no audio; else the transcription, "" when it fails *)
Transcribe ==
    /\ capture.main = "transcribe"
    /\ transcript' \in IF capture.read = <<>> THEN {<<>>} ELSE Transcripts
    /\ capture' = [capture EXCEPT !.main = "returned"]
    /\ UNCHANGED captureFrame

(* record_audio_thread: with sd.InputStream(...) as stream *)
RecorderOpensStream ==
    /\ capture.recorder = "open"
    /\ capture' = [capture EXCEPT !.recorder = "while"]
    /\ UNCHANGED <<captureFrame, transcript>>

(* The loop of the recording thread with a condition that never reads the *)
(* flag: while True                                                        *)
RecorderTestsFlag_WhileTrue ==
    /\ capture.recorder = "while"
    /\ Len(capture.audio_data) < MaxChunks
    /\ capture' = [capture EXCEPT !.recorder = "stream_read"]
    /\ UNCHANGED <<captureFrame, transcript>>

(* while recording: *)
RecorderTestsFlag ==
    /\ capture.recorder = "while"
    /\ capture.recording => Len(capture.audio_data) < MaxChunks
    /\ capture' = [capture EXCEPT !.recorder =
                      IF capture.recording THEN "stream_read"
                      ELSE "terminated"]
    /\ UNCHANGED <<captureFrame, transcript>>

(* audio_chunk, _ = stream.read(1024) *)
RecorderReadsChunk ==
    /\ capture.recorder = "stream_read"
    /\ capture' = [capture EXCEPT !.recorder = "append",
                                  !.audio_chunk = Len(capture.audio_data) + 1]
    /\ UNCHANGED <<captureFrame, transcript>>

(* audio_data.append(audio_chunk) *)
RecorderAppendsChunk ==
    /\ capture.recorder = "append"
    /\ capture' = [capture EXCEPT !.recorder = "while",
                                  !.audio_data = Append(@, capture.audio_chunk)]
    /\ UNCHANGED <<captureFrame, transcript>>

(* stop_recording_thread: input() returns *)
StopperGetsEnter ==
    /\ capture.stopper = "input"
    /\ capture' = [capture EXCEPT !.stopper = "clear_flag"]
    /\ UNCHANGED <<captureFrame, transcript>>

(* recording = False *)
StopperClearsFlag ==
    /\ capture.stopper = "clear_flag"
    /\ capture' = [capture EXCEPT !.stopper = "terminated",
                                  !.recording = FALSE,
                                  !.stopped_at = capture.audio_chunk]
    /\ UNCHANGED <<captureFrame, transcript>>

NextCapture ==
    \/ StartRecordingThread
    \/ StartStopThread
    \/ JoinStopThread
    \/ JoinRecordingThread
    \/ ReadAudioData
    \/ Transcribe
    \/ RecorderOpensStream
    \/ RecorderTestsFlag
    \/ RecorderReadsChunk
    \/ RecorderAppendsChunk
    \/ StopperGetsEnter
    \/ StopperClearsFlag

SpecCapture == InitCapture /\ [][NextCapture]_vars

---------------------------------------------------------------------------
(* SpecCaptureTurn: one turn of the graph with record_audio taken thread   *)
(* by thread.  voice_input goes on when record_audio has returned, and the *)
(* other nodes follow as in Spec.  Every thread that can take a step       *)
(* eventually takes one; that the user presses Enter is not assumed.       *)

(* transcription = record_audio() has returned: the rest of voice_input *)
VoiceInputAfterCapture ==
    /\ pc = "record_audio"
    /\ capture.main = "returned"
    /\ LET r == voice_input(state, spoken, transcript)
       IN  /\ state' = SeesList(hist, r.state)
           /\ store' = KeepsList(hist, store, r.state)
           /\ spoken' = r.spoken
           /\ log' = IF r.spoken # spoken
                     THEN log \o <<"record_audio", "speak">>
                     ELSE Append(log, "record_audio")
    /\ hist' = IF transcript # <<>>
               THEN [hist EXCEPT !.heard = @ + 1] ELSE hist
    /\ pc' = "search_memory"
    /\ UNCHANGED <<capture, turn, n_turns, clock, uuids, transcript, turnStart,
                   lastPrompt, call>>

CallerStep ==
    \/ StartRecordingThread
    \/ StartStopThread
    \/ JoinStopThread
    \/ JoinRecordingThread
    \/ ReadAudioData
    \/ Transcribe
    \/ VoiceInputAfterCapture
    \/ SearchMemory
    \/ SearchMemoryRaises
    \/ GenerateResponseSkips
    \/ GenerateResponse
    \/ GenerateResponseRaises
    \/ VoiceOutput

RecorderStep ==
    \/ RecorderOpensStream
    \/ RecorderTestsFlag
    \/ RecorderReadsChunk
    \/ RecorderAppendsChunk

StopperStep ==
    \/ StopperGetsEnter
    \/ StopperClearsFlag

NextCaptureTurn == CallerStep \/ RecorderStep \/ StopperStep

SpecCaptureTurn ==
    /\ InitCapture
    /\ [][NextCaptureTurn]_vars
    /\ WF_vars(CallerStep)
    /\ WF_vars(RecorderStep)
    /\ WF_vars(StopperClearsFlag)

---------------------------------------------------------------------------
(* SpecFormat: _format_memory_for_prompt applied, as generate_response     *)
(* does, to the memory_search_results of a state.  The results hold past   *)
(* conversations of 0 to MaxMessages messages whose contents are just      *)
(* below, at and above 100 characters.                                     *)

Alphabet == <<"a", "b", "c", "d", "e", "f", "g", "h", "i", "j", "k", "l",
              "m", "n", "o", "p", "q", "r", "s", "t", "u", "v", "w", "x",
              "y", "z">>

(* a text of n characters, no two of its prefixes alike *)
TextOfLength(n) == [i \in 1..n |-> Alphabet[((i - 1) % Len(Alphabet)) + 1]]

ContentLengths ==
    {TRUNCATE_AT - 1, TRUNCATE_AT, TRUNCATE_AT + 1,
     TRUNCATE_AT + MaxExtraChars}

DrawnMessage ==
    [role : {"user", "assistant"},
     content : {TextOfLength(n) : n \in ContentLengths}]

DrawnMessageLists == UNION {[1..n -> DrawnMessage] : n \in 0..MaxMessages}

ShortConversation ==
    [timestamp |-> 60,
     messages |-> <<UserMessage(TextOfLength(2)),
                    AssistantMessage(TextOfLength(3))>>]

DrawnHistories ==
    {<<>>, <<[timestamp |-> 120]>>}
    \cup {<<[timestamp |-> 120, messages |-> m]>> : m \in DrawnMessageLists}
    \cup {<<ShortConversation, [timestamp |-> 120, messages |-> m]>> :
             m \in DrawnMessageLists}

DrawnResults ==
    {EmptyDict}
    \cup [user_profile :
             {<<>>} \cup {<<UserProfile_model_validate(p)>> : p \in Profiles},
          business_knowledge :
             {<<>>} \cup {<<BusinessEntity_model_validate(e)>> : e \in Entities},
          conversation_history : DrawnHistories]

InitFormat ==
    /\ pc = "generate_response"
    /\ turn = 0
    /\ n_turns = 0
    /\ \E r \in DrawnResults :
          state = SetKey([InitialState EXCEPT
                             !.messages = <<UserMessage(<<"hi">>)>>,
                             !.memory_search_results = r],
                         "memory_search_results")
    /\ store = EmptyStore
    /\ clock = 0
    /\ uuids = 0
    /\ transcript = <<>>
    /\ log = <<>>
    /\ spoken = <<>>
    /\ turnStart = InitialState
    /\ lastPrompt = <<>>
    /\ call = NoCall
    /\ hist = NoHistory
    /\ capture = NoCapture

(* memory_context = _format_memory_for_prompt(memory_results) *)
FormatMemory ==
    /\ call.n = 0
    /\ call' = Called("_format_memory_for_prompt", state.user_id,
                      state.memory_search_results,
                      format_memory_for_prompt(state.memory_search_results),
                      0)
    /\ UNCHANGED <<store, clock, uuids, pipelineVars, hist>>

NextFormat == FormatMemory

SpecFormat == InitFormat /\ [][NextFormat]_vars

---------------------------------------------------------------------------
(* SpecGenerate: the generate_response node run once on states whose       *)
(* message list has from 0 to MAX_CONVERSATION_HISTORY + MaxExtraMessages  *)
(* messages, user and assistant alternating, each with a content of its    *)
(* own.  turnStart keeps the state the node was given.                     *)

DrawnConversation(n) ==
    [i \in 1..n |-> IF i % 2 = 1 THEN UserMessage(<<Alphabet[i]>>)
                    ELSE AssistantMessage(<<Alphabet[i]>>)]

NothingFound == [k \in Kinds |-> <<>>]

DrawnState(n) ==
    SetKey([InitialState EXCEPT
               !.messages = DrawnConversation(n),
               !.memory_search_results =
                   IF n = 0 THEN EmptyDict ELSE NothingFound],
           "memory_search_results")

InitGenerate ==
    /\ pc = "generate_response"
    /\ turn = 1
    /\ n_turns = 1
    /\ \E n \in 0..(MAX_CONVERSATION_HISTORY + MaxExtraMessages) :
          /\ state = DrawnState(n)
          /\ turnStart = DrawnState(n)
    /\ store = EmptyStore
    /\ clock = 0
    /\ uuids = 0
    /\ transcript = <<>>
    /\ log = <<>>
    /\ spoken = <<>>
    /\ lastPrompt = <<>>
    /\ call = NoCall
    /\ hist = NoHistory
    /\ capture = NoCapture

NextGenerate ==
    \/ GenerateResponseSkips
    \/ GenerateResponse
    \/ GenerateResponseRaises

SpecGenerate == InitGenerate /\ [][NextGenerate]_vars

---------------------------------------------------------------------------
(* SpecSteps: generate_response followed by voice_output, with the calls   *)
(* generate_response makes taken one at a time: the completion and the     *)
(* append, then the three calls of _update_memory, then its return.  pc    *)
(* names the call about to be made; there is one thread of control, the    *)
(* graph's, which is inside generate_response until it returns.            *)

(* llm.invoke returns; messages.append; spoken_response is computed *)
InvokeCompletion ==
    /\ pc = "generate_response"
    /\ state.messages # <<>>
    /\ lastPrompt' = CompletionRequest(state)
    /\ \E response_content \in Completions :
          LET s2 == [state EXCEPT !.messages =
                       Append(@, AssistantMessage(response_content))]
          IN  /\ state' = SeesList(hist, s2)
              /\ store' = KeepsList(hist, store, s2)
    /\ log' = Append(log, "llm.invoke")
    /\ pc' = MemoryOps[1]
    /\ UNCHANGED <<capture, turn, n_turns, clock, uuids, transcript, spoken,
                   turnStart, call, hist>>

(* memory_manager.update_user_profile(messages, user_id) *)
CallUpdateUserProfile ==
    /\ pc = MemoryOps[1]
    /\ log' = Append(log, MemoryOps[1])
    /\ hist' = [hist EXCEPT !.passed = <<state.messages>>]
    /\ \E outcome \in {"raise", "none", "write"}, p \in Profiles :
          /\ store' = IF outcome = "write"
                      THEN update_user_profile(store, state.user_id, p)
                      ELSE store
          /\ pc' = IF outcome = "raise" THEN "raised" ELSE MemoryOps[2]
    /\ UNCHANGED <<capture, turn, n_turns, state, clock, uuids, transcript,
                   spoken, turnStart, lastPrompt, call>>

(* memory_manager.update_business_knowledge(messages, user_id) *)
CallUpdateBusinessKnowledge ==
    /\ pc = MemoryOps[2]
    /\ log' = Append(log, MemoryOps[2])
    /\ hist' = [hist EXCEPT !.passed = Append(@, state.messages)]
    /\ \E outcome \in {"raise", "none", "write"}, e \in Entities :
          /\ store' = IF outcome = "write"
                      THEN update_business_knowledge(store, state.user_id,
                                                     uuid4(uuids), e)
                      ELSE store
          /\ uuids' = IF outcome = "write" THEN uuids + 1 ELSE uuids
          /\ pc' = IF outcome = "raise" THEN "raised" ELSE MemoryOps[3]
    /\ UNCHANGED <<capture, turn, n_turns, state, clock, transcript, spoken,
                   turnStart, lastPrompt, call>>

(* memory_manager.save_conversation(messages, user_id) *)
CallSaveConversation ==
    /\ pc = MemoryOps[3]
    /\ log' = Append(log, MemoryOps[3])
    /\ clock' = clock + 1
    /\ uuids' = uuids + 1
    /\ \E outcome \in {"raise", "ok"} :
          /\ store' = IF outcome = "ok"
                      THEN save_conversation(store, state.messages,
                                             state.user_id, uuid4(uuids),
                                             clock + 1)
                      ELSE store
          /\ hist' = IF outcome = "ok"
                     THEN [hist EXCEPT !.passed = Append(@, state.messages),
                                       !.saves[state.user_id] = @ + 1]
                     ELSE [hist EXCEPT !.passed = Append(@, state.messages)]
          /\ pc' = IF outcome = "raise" THEN "raised" ELSE "return"
    /\ UNCHANGED <<capture, turn, n_turns, state, transcript, spoken,
                   turnStart, lastPrompt, call>>

(* return {**state, "messages": messages, "spoken_response": ...} *)
ReturnResponse ==
    /\ pc = "return"
    /\ state' = SetKey([state EXCEPT !.spoken_response =
                          optimize_for_speech(
                              state.messages[Len(state.messages)].content)],
                       "spoken_response")
    /\ pc' = "voice_output"
    /\ UNCHANGED <<capture, turn, n_turns, memoryVars, transcript, log,
                   spoken, turnStart, lastPrompt, call, hist>>

NextSteps ==
    \/ GenerateResponseSkips
    \/ GenerateResponseRaises
    \/ InvokeCompletion
    \/ CallUpdateUserProfile
    \/ CallUpdateBusinessKnowledge
    \/ CallSaveConversation
    \/ ReturnResponse
    \/ VoiceOutput

SpecSteps == InitGenerate /\ [][NextSteps]_vars

---------------------------------------------------------------------------
(* Properties of the MemoryManager, checked under SpecMM *)

ConversationNamespace(st, u) == Namespace(st, MEMORY_NAMESPACE_CONVERSATION, u)

HasContext(st, u) == CONTEXT_KEY \in KeysOf(ConversationNamespace(st, u))

ContextValue(st, u) ==
    StoreSearchKey(st, MEMORY_NAMESPACE_CONVERSATION, u, CONTEXT_KEY)[1].value

LoggedConversations(st, u) ==
    SelectSeq(ConversationNamespace(st, u), LAMBDA it : it.key # CONTEXT_KEY)

(* C8, state part: a get_conversation_context that found no context record *)
(* wrote exactly one record, the default context under key "context", and  *)
(* returned the default; one that found the record wrote nothing; and a    *)
(* get_conversation_context directly after another for the same user       *)
(* returns the same content and writes nothing.                            *)
C8_GetContextState ==
    call.op = "get_conversation_context" =>
        /\ HasContext(store, call.user)
        /\ ~HasContext(call.before, call.user) =>
              /\ call.puts = 1
              /\ call.ret = ConversationContextDefault
              /\ ContextValue(store, call.user) =
                    ConversationContext_model_dump(ConversationContextDefault)
        /\ HasContext(call.before, call.user) =>
              /\ call.puts = 0
              /\ store = call.before
        /\ (call.prev.op = "get_conversation_context"
                /\ call.prev.user = call.user) =>
              /\ call.ret = call.prev.ret
              /\ call.puts = 0
              /\ store = call.before

(* C8, step part: once a user's context record exists it exists in every   *)
(* later state.                                                            *)
C8_ContextStays ==
    \A u \in Users : HasContext(store, u) => HasContext(store', u)

(* C8: get_conversation_context twice in a row returns identical content,  *)
(* only the first call on an absent context writes (the default, under key *)
(* "context"), and after the first access the record exists ever after.    *)
C8_ContextIdempotent == [](C8_GetContextState) /\ [][C8_ContextStays]_vars

C8_Witness ==
    /\ call.op = "get_conversation_context"
    /\ call.prev.op = "get_conversation_context"
    /\ call.prev.user = call.user
    /\ call.n = 2
    /\ call.puts = 0
    /\ call.ret = ConversationContextDefault
    /\ HasContext(store, call.user)

(* C9: a get_conversation_context after update_conversation_context(c, u)  *)
(* returns exactly c, however many conversations were saved for u before   *)
(* or after the update; and repeating the same update leaves the store     *)
(* unchanged.                                                              *)
C9_ContextRoundTrip ==
    /\ (call.op = "get_conversation_context"
            /\ hist.written[call.user] # <<>>) =>
          /\ call.ret = hist.written[call.user][1]
          /\ call.puts = 0
    /\ (call.op = "update_conversation_context"
            /\ call.prev.op = "update_conversation_context"
            /\ call.prev.user = call.user
            /\ call.prev.arg = call.arg) =>
          store = call.before
    /\ call.op = "update_conversation_context" =>
          /\ Len(SelectSeq(ConversationNamespace(store, call.user),
                           LAMBDA it : it.key = CONTEXT_KEY)) = 1
          /\ LoggedConversations(store, call.user) =
                LoggedConversations(call.before, call.user)

C9_Witness ==
    /\ call.op = "get_conversation_context"
    /\ hist.written[call.user] # <<>>
    /\ call.ret # ConversationContextDefault
    /\ call.prev.op = "save_conversation"
    /\ call.prev.user = call.user
    /\ Len(ConversationNamespace(store, call.user)) = 3
    /\ ConversationNamespace(store, call.user)[2].key = CONTEXT_KEY

(* C10: save_conversation writes under a key that no record of the user's  *)
(* conversation namespace had (the context record included), so the number *)
(* of logged conversations equals the number of saves and every earlier    *)
(* record is still there under its key with its value.                     *)
C10_AppendOnly ==
    /\ \A u \in Users :
          Len(LoggedConversations(store, u)) = hist.saves[u]
    /\ call.op = "save_conversation" =>
          LET before == ConversationNamespace(call.before, call.user)
              after == ConversationNamespace(store, call.user)
          IN  /\ call.ret \notin KeysOf(before)
              /\ call.ret # CONTEXT_KEY
              /\ Len(after) = Len(before) + 1
              /\ \A i \in DOMAIN before : after[i] = before[i]
              /\ after[Len(after)].key = call.ret
              /\ after[Len(after)].value.messages = call.arg

C10_Witness ==
    /\ call.op = "save_conversation"
    /\ call.prev.op = "save_conversation"
    /\ call.prev.user = call.user
    /\ HasContext(call.before, call.user)
    /\ hist.saves[call.user] = 2
    /\ Len(ConversationNamespace(store, call.user)) = 3

---------------------------------------------------------------------------
(* Properties of search_memory, checked under SpecSearch *)

(* C5: whatever the store holds, search_memory returns at most 1           *)
(* user_profile entry, at most 5 business_knowledge entries and at most 3  *)
(* conversation_history entries.                                           *)
C5_SearchCaps ==
    call.op = "search_memory" =>
        /\ Len(call.ret.user_profile) <= 1
        /\ Len(call.ret.business_knowledge) <= 5
        /\ Len(call.ret.conversation_history) <= 3

C5_Witness ==
    /\ call.op = "search_memory"
    /\ Len(Namespace(call.before, MEMORY_NAMESPACE_BUSINESS, call.user)) > 5
    /\ Len(call.ret.business_knowledge) = 5

(* C6: the conversation_history list of a search_memory result holds only  *)
(* values of logged conversations of that user, never the "context"        *)
(* record, and the result has all three kinds, each a list, the empty list *)
(* for a kind with no record to find.                                      *)
C6_ContextExcluded ==
    call.op = "search_memory" =>
        LET u == call.user
            found == call.ret.conversation_history
            logged == LoggedConversations(call.before, u)
        IN  /\ DOMAIN call.ret = Kinds
            /\ \A k \in Kinds :
                  /\ DOMAIN call.ret[k] = 1..Len(call.ret[k])
                  /\ Namespace(call.before, k, u) = <<>> => call.ret[k] = <<>>
            /\ \A i \in DOMAIN found :
                  /\ \E j \in DOMAIN logged : found[i] = logged[j].value
                  /\ HasContext(call.before, u) =>
                        found[i] # ContextValue(call.before, u)
            /\ LoggedConversations(call.before, u) = <<>> => found = <<>>

C6_Witness ==
    /\ call.op = "search_memory"
    /\ HasContext(call.before, call.user)
    /\ Len(ConversationNamespace(call.before, call.user)) = 3
    /\ Len(call.ret.conversation_history) = 2
    /\ call.ret.business_knowledge = <<>>

---------------------------------------------------------------------------
(* Properties of the pipeline, checked under Spec *)

Logged(name) == \E i \in DOMAIN log : log[i] = name

(* The collaborator call that raised in the current turn, "none" if none   *)
RaisedBy == IF pc = "raised" THEN log[Len(log)] ELSE "none"

(* A memory-update step of the current turn has failed *)
MemoryUpdateFailed ==
    /\ Logged("llm.invoke")
    /\ \E i \in DOMAIN MemoryOps : RaisedBy = MemoryOps[i]

TurnOver == pc \in {"run_assistant", "raised"} /\ turn > 0

(* C1: in a turn whose transcript is empty, no message is appended, there  *)
(* is no memory search, no completion call, no memory write and no         *)
(* playback other than the fallback prompt, and the state handed back to   *)
(* run_assistant equals the state at turn start.                           *)
C1_EmptyTranscriptShortCircuits ==
    (TurnOver /\ transcript = <<>>) =>
        /\ state = turnStart
        /\ ~Logged("search_memory")
        /\ ~Logged("llm.invoke")
        /\ \A i \in DOMAIN MemoryOps : ~Logged(MemoryOps[i])
        /\ spoken = <<FALLBACK_PROMPT>>

(* C2: when a step of the memory-update sequence fails, generate_response  *)
(* still returns: the failure does not reach its caller, the state has the *)
(* assistant message and the spoken response, and voice_output plays it.   *)
C2_MemoryFailureContained ==
    MemoryUpdateFailed =>
        /\ pc # "raised"
        /\ "spoken_response" \in state.keys
        /\ state.messages[Len(state.messages)].role = "assistant"
        /\ pc = "run_assistant" => spoken # <<>>

(* C3: for a non-empty transcript, voice_input appends exactly one message *)
(* (role user, content the transcript) at the end of the message list,     *)
(* leaves the earlier messages and the user id as they were, assigns no    *)
(* other key of the state (a key that holds the appended list shows it),   *)
(* and plays no fallback prompt.                                           *)
C3_CaptureAppendsUserMessage ==
    (pc = "search_memory" /\ transcript # <<>>) =>
        /\ state.messages = Append(turnStart.messages, UserMessage(transcript))
        /\ state.user_id = turnStart.user_id
        /\ state = SeesList(hist,
                             [turnStart EXCEPT !.messages = state.messages])
        /\ spoken = <<>>
        /\ ~Logged("speak")

C3_Witness ==
    /\ pc = "search_memory"
    /\ transcript # <<>>
    /\ turn = 2
    /\ Len(turnStart.messages) = 2
    /\ Len(state.messages) = 3

(* C4: for the empty transcript, voice_input returns the state unchanged   *)
(* and makes exactly one playback call, the fallback prompt.               *)
C4_CaptureEmptyPrompts ==
    (pc = "search_memory" /\ transcript = <<>>) =>
        /\ state = turnStart
        /\ spoken = <<FALLBACK_PROMPT>>
        /\ log = <<"record_audio", "speak">>

C4_Witness ==
    /\ pc = "search_memory"
    /\ transcript = <<>>
    /\ turnStart.messages # <<>>
    /\ spoken = <<FALLBACK_PROMPT>>

(* C7: search_memory (the node) on a state with no user message sets       *)
(* memory_search_results to a result that has the three kinds              *)
(* user_profile, business_knowledge and conversation_history, each empty.  *)
C7_RetrieveEmptyHasAllKinds ==
    (pc = "generate_response" /\ LastUserMessage(state.messages) = <<>>) =>
        /\ "memory_search_results" \in state.keys
        /\ DOMAIN state.memory_search_results = Kinds
        /\ \A k \in DOMAIN state.memory_search_results :
              state.memory_search_results[k] = <<>>

---------------------------------------------------------------------------
(* Properties of the namespaces, checked under SpecMM *)

ProfileNamespace(st, u) == Namespace(st, MEMORY_NAMESPACE_USER_PROFILE, u)

(* C11: the profile namespace of every user holds at most one record;      *)
(* update_user_profile leaves exactly one record there, under the key the  *)
(* namespace already had if it had one; no other MemoryManager operation   *)
(* changes a profile namespace.                                            *)
C11_SingleProfile ==
    /\ \A u \in Users : Len(ProfileNamespace(store, u)) <= 1
    /\ call.op = "update_user_profile" =>
          /\ Len(ProfileNamespace(store, call.user)) = 1
          /\ KeysOf(ProfileNamespace(call.before, call.user))
                \subseteq KeysOf(ProfileNamespace(store, call.user))
    /\ call.op # "update_user_profile" =>
          store[MEMORY_NAMESPACE_USER_PROFILE] =
              call.before[MEMORY_NAMESPACE_USER_PROFILE]

C11_Witness ==
    /\ call.op = "update_user_profile"
    /\ call.prev.op = "update_user_profile"
    /\ call.prev.user = call.user
    /\ Len(ProfileNamespace(call.before, call.user)) = 1
    /\ Len(ProfileNamespace(store, call.user)) = 1

(* The kind an operation works on; search_memory works on all three *)
OpKinds(op) ==
    IF op \in {"get_user_profile", "update_user_profile"}
    THEN {MEMORY_NAMESPACE_USER_PROFILE}
    ELSE IF op \in {"get_business_entities", "update_business_knowledge"}
    THEN {MEMORY_NAMESPACE_BUSINESS}
    ELSE IF op \in {"save_conversation", "get_conversation_context",
                    "update_conversation_context"}
    THEN {MEMORY_NAMESPACE_CONVERSATION}
    ELSE IF op = "search_memory" THEN Kinds
    ELSE {}

(* The store with every namespace but (kind, user) emptied *)
Only(st, kind, user) ==
    [k \in Kinds |->
        [u \in Users |-> IF k = kind /\ u = user THEN st[k][u] ELSE <<>>]]

(* The result of the last call is what the operation returns when the      *)
(* store holds namespace (kind, call.user) alone                           *)
ResultFromOwnNamespace ==
    /\ call.op = "get_user_profile" =>
          call.ret = get_user_profile(
                        Only(call.before, MEMORY_NAMESPACE_USER_PROFILE,
                             call.user), call.user)
    /\ call.op = "get_business_entities" =>
          call.ret = get_business_entities(
                        Only(call.before, MEMORY_NAMESPACE_BUSINESS,
                             call.user), call.user)
    /\ call.op = "get_conversation_context" =>
          call.ret = get_conversation_context(
                        Only(call.before, MEMORY_NAMESPACE_CONVERSATION,
                             call.user), call.user).ret
    /\ call.op = "search_memory" =>
          \A k \in Kinds :
             LET own == Only(call.before, k, call.user)
             IN  \E ranks \in Rankings(own, call.user) :
                    call.ret[k] =
                        search_memory(own, call.arg, call.user, ranks)[k]

(* C12: a MemoryManager operation for user u and kind k changes no         *)
(* namespace other than (k, u), and what it returns is determined by the   *)
(* records of (k, u) alone: records of another user or kind never show up  *)
(* in it.                                                                  *)
C12_NamespaceIsolation ==
    /\ \A k \in Kinds, u \in Users :
          (k \notin OpKinds(call.op) \/ u # call.user) =>
              store[k][u] = call.before[k][u]
    /\ ResultFromOwnNamespace

C12_Witness ==
    /\ call.op = "search_memory"
    /\ call.user # DEFAULT_USER_ID
    /\ ProfileNamespace(call.before, call.user) # <<>>
    /\ ProfileNamespace(call.before, DEFAULT_USER_ID) # <<>>
    /\ ConversationNamespace(call.before, DEFAULT_USER_ID) # <<>>
    /\ Len(call.ret.user_profile) = 1
    /\ call.ret.conversation_history = <<>>

---------------------------------------------------------------------------
(* Properties of the turn structure, checked under Spec *)

(* The positions that may follow a position: the graph's edges, the loop   *)
(* of run_assistant, and the end of the run when a collaborator raises     *)
StageSuccessor(p) ==
    CASE p = "run_assistant" -> {"voice_input", "done"}
      [] p = "voice_input" -> {"search_memory"}
      [] p = "search_memory" -> {"generate_response", "raised"}
      [] p = "generate_response" -> {"voice_output", "raised"}
      [] p = "voice_output" -> {"run_assistant"}
      [] OTHER -> {}

C13_Step ==
    /\ pc' \in StageSuccessor(pc)
    /\ n_turns' = n_turns
    /\ pc' = "voice_input" =>
          /\ turn < n_turns
          /\ turn' = turn + 1
          /\ state' = state
          /\ turnStart' = state
    /\ pc' # "voice_input" => turn' = turn /\ turnStart' = turnStart
    /\ pc' = "done" => turn = n_turns /\ state' = state

AsReturned(kind, value) ==
    IF kind = MEMORY_NAMESPACE_USER_PROFILE
    THEN UserProfile_model_validate(value)
    ELSE IF kind = MEMORY_NAMESPACE_BUSINESS
    THEN BusinessEntity_model_validate(value)
    ELSE value

(* The turn is at least the second and its search has been made *)
SearchedInLaterTurn ==
    /\ pc = "generate_response"
    /\ turn >= 2
    /\ SearchesMemory(state)

(* C14: in a turn after the first, the store the search reads holds what   *)
(* the earlier turns' generate_response wrote: the conversation saved by   *)
(* the previous turn is there (with the full message list of that turn,    *)
(* followed by nothing or by what was appended to the list since), and     *)
(* every record of a namespace that is within the search's limit is among  *)
(* the results of this turn's search.                                      *)
C14_EarlierWritesVisible ==
    /\ (pc \in {"search_memory", "generate_response"} /\ turn >= 2
           /\ turnStart.messages # <<>>) =>
          \E i \in DOMAIN ConversationNamespace(store, state.user_id) :
             LET saved == ConversationNamespace(store, state.user_id)[i]
                             .value.messages
             IN  /\ Len(saved) >= Len(turnStart.messages)
                 /\ SubSeq(saved, 1, Len(turnStart.messages))
                        = turnStart.messages
    /\ SearchedInLaterTurn =>
          \A k \in Kinds :
             LET ns == Namespace(store, k, state.user_id)
                 res == state.memory_search_results[k]
             IN  Len(ns) <= SearchLimit(k) =>
                    \A i \in DOMAIN ns :
                       ns[i].key # CONTEXT_KEY =>
                          \E j \in DOMAIN res :
                             res[j] = AsReturned(k, ns[i].value)

C14_Witness ==
    /\ SearchedInLaterTurn
    /\ Len(state.memory_search_results.user_profile) = 1
    /\ Len(state.memory_search_results.business_knowledge) = 1
    /\ Len(state.memory_search_results.conversation_history) = 1
    /\ state.memory_search_results.conversation_history[1].messages
           = turnStart.messages

---------------------------------------------------------------------------
(* Properties of record_audio, checked under SpecCapture *)

(* C15: the caller of record_audio reads audio_data only when the          *)
(* recording thread and the stop thread have both terminated, and what it  *)
(* read is all that was ever appended: no chunk is appended during or      *)
(* after the read.                                                         *)
C15_ReadAfterJoin ==
    /\ capture.main \in {"read", "transcribe", "returned"} =>
          /\ capture.recorder = "terminated"
          /\ capture.stopper = "terminated"
    /\ capture.main \in {"transcribe", "returned"} =>
          capture.read = capture.audio_data

C15_Witness ==
    /\ capture.main = "returned"
    /\ Len(capture.read) = MaxChunks
    /\ capture.recorder = "terminated"
    /\ transcript # <<>>

---------------------------------------------------------------------------
(* Properties of generate_response and its failures, checked under Spec *)

(* The completion call of the current turn returned a response *)
ResponseProduced == Logged("llm.invoke") /\ RaisedBy # "llm.invoke"

(* C16: once generate_response of a turn that produced a response is over, *)
(* update_user_profile, update_business_knowledge and save_conversation    *)
(* have each been called, whichever of them failed.                        *)
C16_WritesAttemptedIndependently ==
    (ResponseProduced /\ pc # "generate_response") =>
        \A i \in DOMAIN MemoryOps : Logged(MemoryOps[i])

(* The completion call of the current turn failed: llm.invoke is the last  *)
(* call of generate_response, where a completion that returns is always    *)
(* followed by update_user_profile                                         *)
CompletionFailed ==
    \E i \in DOMAIN log :
        /\ log[i] = "llm.invoke"
        /\ i < Len(log) => log[i + 1] # MemoryOps[1]

(* C17: in a turn whose completion call failed, the message list is the    *)
(* one voice_input left (no assistant message), no memory update is        *)
(* called, and nothing is played after the failure: not a response of      *)
(* this turn and not the spoken_response an earlier turn left in the       *)
(* state.  Only the fallback prompt of voice_input may have been played.   *)
C17_CompletionFailureSilent ==
    CompletionFailed =>
        /\ state.messages =
              IF transcript = <<>> THEN turnStart.messages
              ELSE Append(turnStart.messages, UserMessage(transcript))
        /\ \A i \in DOMAIN MemoryOps : ~Logged(MemoryOps[i])
        /\ spoken = IF transcript = <<>> THEN <<FALLBACK_PROMPT>> ELSE <<>>
        /\ log[Len(log)] = "llm.invoke"

C17_Witness ==
    /\ CompletionFailed
    /\ turn = 2
    /\ transcript # <<>>
    /\ "spoken_response" \in state.keys
    /\ state.spoken_response # <<>>
    /\ spoken = <<>>

---------------------------------------------------------------------------
(* Properties of _format_memory_for_prompt, checked under SpecFormat *)

(* The lines of the conversation block, after its heading *)
HistoryBlock ==
    LET lines == call.ret.formatted
        at == CHOOSE i \in DOMAIN lines :
                 lines[i] = <<"nl", "RELEVANT PAST CONVERSATIONS:">>
    IN  SubSeq(lines, at + 1, Len(lines))

MessagesOf(conversation) ==
    IF "messages" \in DOMAIN conversation THEN conversation.messages ELSE <<>>

(* The position of conversation k's date line in the block, when every     *)
(* conversation before it is followed by at most two message lines         *)
RECURSIVE DateLineOf(_, _)
DateLineOf(conversations, k) ==
    IF k = 1 THEN 1
    ELSE DateLineOf(conversations, k - 1) + 1
         + Min(2, Len(MessagesOf(conversations[k - 1])))

(* What a message line shows of the content: the line without its three    *)
(* leading pieces ("  * ", the role, ": ")                                 *)
EmittedContent(line) == SubSeq(line, 4, Len(line))

(* C18: for each past conversation the formatter emits its date line and   *)
(* then one line for each of its last two messages (all of them when it    *)
(* has fewer), in order; the content shown is the message content itself   *)
(* when it has at most 100 characters, and otherwise its first 100         *)
(* characters followed by "...", 103 characters in all.                    *)
C18_LastTwoTruncated ==
    (call.op = "_format_memory_for_prompt"
        /\ GetResults(call.arg, MEMORY_NAMESPACE_CONVERSATION) # <<>>) =>
       LET conversations == call.arg.conversation_history
           block == HistoryBlock
       IN  /\ Len(block) = DateLineOf(conversations, Len(conversations))
                  + Min(2, Len(MessagesOf(conversations[Len(conversations)])))
           /\ \A k \in DOMAIN conversations :
                 LET messages == MessagesOf(conversations[k])
                     emitted == Min(2, Len(messages))
                     date == DateLineOf(conversations, k)
                 IN  /\ block[date][1] = "- Date: "
                     /\ \A j \in 1..emitted :
                           LET msg == messages[Len(messages) - emitted + j]
                               line == block[date + j]
                               shown == EmittedContent(line)
                           IN  /\ line[1] = "  * "
                               /\ line[2] = capitalize(msg.role)
                               /\ Len(msg.content) <= 100 =>
                                     shown = msg.content
                               /\ Len(msg.content) > 100 =>
                                     /\ shown = SubSeq(msg.content, 1, 100)
                                                  \o <<".", ".", ".">>
                                     /\ Len(shown) = 103

C18_Witness ==
    /\ call.op = "_format_memory_for_prompt"
    /\ Len(GetResults(call.arg, MEMORY_NAMESPACE_CONVERSATION)) = 2
    /\ Len(call.arg.conversation_history[2].messages) = 3
    /\ Len(call.arg.conversation_history[2].messages[2].content)
           > TRUNCATE_AT + 1
    /\ Len(call.arg.conversation_history[2].messages[3].content)
           = TRUNCATE_AT
    /\ Len(HistoryBlock) = 6
    /\ Len(EmittedContent(HistoryBlock[5])) = 103
    /\ Len(EmittedContent(HistoryBlock[6])) = 100

---------------------------------------------------------------------------
(* Properties of generate_response, checked under SpecGenerate *)

TimesLogged(name) == Cardinality({i \in DOMAIN log : log[i] = name})

GenerateOver == pc # "generate_response"

(* C19: generate_response given no messages returns the state it was       *)
(* given, with no completion request and no memory update.  Given          *)
(* messages, it makes one completion request, the system message followed  *)
(* by the last MAX_CONVERSATION_HISTORY messages (all of them when there   *)
(* are fewer), and when the completion returns, the message list is the    *)
(* given one with one assistant message appended whose content is the      *)
(* completion text as returned, the spoken response being its speech       *)
(* rendering.                                                              *)
C19_GenerateContract ==
    /\ (GenerateOver /\ turnStart.messages = <<>>) =>
          /\ state = turnStart
          /\ log = <<>>
          /\ lastPrompt = <<>>
          /\ store = EmptyStore
    /\ (GenerateOver /\ turnStart.messages # <<>>) =>
          LET given == turnStart.messages
              window == Min(Len(given), MAX_CONVERSATION_HISTORY)
          IN  /\ TimesLogged("llm.invoke") = 1
              /\ log[1] = "llm.invoke"
              /\ Len(lastPrompt) = window + 1
              /\ lastPrompt[1].role = "system"
              /\ \A i \in 1..window :
                    lastPrompt[i + 1] = given[Len(given) - window + i]
              /\ ResponseProduced =>
                    \E c \in Completions :
                       /\ state.messages =
                             Append(given,
                                    [role |-> "assistant", content |-> c])
                       /\ pc = "voice_output" =>
                             state.spoken_response = optimize_for_speech(c)
              /\ ~ResponseProduced => state.messages = given

C19_Witness ==
    /\ pc = "voice_output"
    /\ Len(turnStart.messages) = MAX_CONVERSATION_HISTORY + MaxExtraMessages
    /\ Len(lastPrompt) = MAX_CONVERSATION_HISTORY + 1
    /\ lastPrompt[2] = turnStart.messages[MaxExtraMessages + 1]
    /\ Len(state.messages) = Len(turnStart.messages) + 1
    /\ state.messages[Len(state.messages)].content # state.spoken_response

(* C20: the memory updates of a turn are called after the completion       *)
(* returned, update_user_profile first, then update_business_knowledge,    *)
(* then save_conversation, none of them when the completion failed; each   *)
(* is passed the whole message list with the new assistant message at its  *)
(* end, and that list is what the saved conversation holds.                *)
C20_UpdatesAfterResponse ==
    /\ pc = "generate_response" =>
          \A i \in DOMAIN MemoryOps : ~Logged(MemoryOps[i])
    /\ (GenerateOver /\ ~ResponseProduced) =>
          \A i \in DOMAIN MemoryOps : ~Logged(MemoryOps[i])
    /\ (GenerateOver /\ ResponseProduced) =>
          /\ Len(log) >= 2
          /\ log = <<"llm.invoke">> \o SubSeq(MemoryOps, 1, Len(log) - 1)
          /\ pc = "voice_output" => Len(log) = 1 + Len(MemoryOps)
          /\ Len(state.messages) = Len(turnStart.messages) + 1
          /\ state.messages[Len(state.messages)].role = "assistant"
          /\ Len(hist.passed) = Len(log) - 1
          /\ \A i \in DOMAIN hist.passed : hist.passed[i] = state.messages
          /\ pc = "voice_output" =>
                \E i \in DOMAIN ConversationNamespace(store, state.user_id) :
                   ConversationNamespace(store, state.user_id)[i]
                       .value.messages = state.messages

C20_Witness ==
    /\ pc = "voice_output"
    /\ Len(turnStart.messages) > MAX_CONVERSATION_HISTORY
    /\ Len(lastPrompt) = MAX_CONVERSATION_HISTORY + 1
    /\ Len(hist.passed) = 3
    /\ Len(hist.passed[1]) = Len(turnStart.messages) + 1
    /\ ProfileNamespace(store, state.user_id) # <<>>

---------------------------------------------------------------------------
(* Properties of the order of writes and speech, checked under SpecSteps *)

(* The response of the turn is computed and a call of _update_memory has   *)
(* not been made yet                                                       *)
WritePending == \E i \in DOMAIN MemoryOps : pc = MemoryOps[i]

(* Whenever a response has been played, the three memory updates of the    *)
(* turn have all returned before                                           *)
SpeechAfterWrites ==
    spoken # <<>> =>
        /\ log = <<"llm.invoke">> \o MemoryOps \o <<"speak">>
        /\ hist.saves[state.user_id] = 1

(* C21: playing the response does not wait for the memory updates: while   *)
(* an update of the turn is still outstanding, voice_output can run and    *)
(* play the response.                                                      *)
C21_SpeechNotBlockedByWrites == WritePending => ENABLED VoiceOutput

---------------------------------------------------------------------------
(* Properties of record_audio and the turn it belongs to, checked under *)
(* SpecCaptureTurn                                                      *)

(* The stop thread has set recording = False *)
StopSignalled == ~capture.recording

(* The flag was tested and the recording thread left its loop *)
RecorderLeftLoop == capture.recorder = "terminated"

(* record_audio has returned to voice_input *)
CaptureReturned == capture.main = "returned"

(* The graph run of the turn has come to its end *)
PipelineRan == pc = "run_assistant" \/ pc = "raised"

(* C22: once the stop thread has cleared the recording flag, the recording *)
(* thread reads at most one further chunk and leaves its loop, both joins  *)
(* return and record_audio returns to voice_input; the stop signal ends    *)
(* the capture only: voice_input hands over to search_memory and the graph *)
(* run of the turn goes on to its end.                                     *)
C22_CaptureTerminates ==
    /\ [](StopSignalled => capture.audio_chunk <= capture.stopped_at + 1)
    /\ StopSignalled ~> RecorderLeftLoop
    /\ StopSignalled ~> CaptureReturned
    /\ (StopSignalled /\ pc = "record_audio") ~> (pc = "search_memory")
    /\ StopSignalled ~> PipelineRan

(* The flag was cleared between the test of the loop condition and the *)
(* read: one more chunk was read, then the capture and the turn ended  *)
C22_Witness ==
    /\ StopSignalled
    /\ capture.audio_chunk = capture.stopped_at + 1
    /\ capture.stopped_at > 0
    /\ CaptureReturned
    /\ Len(capture.read) = capture.audio_chunk
    /\ pc = "run_assistant"
    /\ spoken # <<>>

---------------------------------------------------------------------------
(* The result slots of the conversation search, checked under SpecSearch *)

(* C23: with n logged conversations in the user's conversation namespace,  *)
(* beside the "context" record or without it, search_memory returns        *)
(* min(3, n) conversation_history entries: the context record takes none   *)
(* of the three places.                                                    *)
C23_ContextTakesNoSlot ==
    call.op = "search_memory" =>
        Len(call.ret.conversation_history)
            = Min(CONVERSATION_LIMIT,
                  Len(LoggedConversations(call.before, call.user)))

(* The same count for the namespaces that hold no context record *)
C23_FullSlotsWithoutContext ==
    (call.op = "search_memory" /\ ~HasContext(call.before, call.user)) =>
        Len(call.ret.conversation_history)
            = Min(CONVERSATION_LIMIT,
                  Len(LoggedConversations(call.before, call.user)))

---------------------------------------------------------------------------
(* The saved conversations of a session, checked under Spec *)

(* Every conversation the store holds stays as it is in the step *)
SavedRecordsKept ==
    \A u \in Users :
       LET before == ConversationNamespace(store, u)
           after == ConversationNamespace(store', u)
       IN  /\ Len(after) >= Len(before)
           /\ \A i \in DOMAIN before : after[i] = before[i]

(* Two conversations of a user hold different message lists *)
SavedRecordsDiffer ==
    \A u \in Users :
       LET saved == LoggedConversations(store, u)
       IN  \A i, j \in DOMAIN saved :
              i # j => saved[i].value.messages # saved[j].value.messages

(* C24: a conversation record, once saved, holds the message list of the   *)
(* moment of the save: no later append to the messages of the state, in    *)
(* the same turn or a later one, changes a record the store holds, and     *)
(* records saved in different turns hold different message lists.          *)
C24_SavedRecordIsSnapshot ==
    /\ [][SavedRecordsKept]_vars
    /\ []SavedRecordsDiffer

(* The same, for the sessions in which the store and the graph hold copies *)
C24_SnapshotOfCopies ==
    /\ [][~hist.shared => SavedRecordsKept]_vars
    /\ [](~hist.shared => SavedRecordsDiffer)

---------------------------------------------------------------------------
(* The message list of the turn state over a session, checked under Spec *)

(* after begins with all of before, unchanged *)
Extends(before, after) ==
    /\ Len(after) >= Len(before)
    /\ SubSeq(after, 1, Len(before)) = before

(* user, assistant, user, assistant, ... from the first message on *)
RolesAlternate(messages) ==
    \A i \in DOMAIN messages :
       messages[i].role = IF i % 2 = 1 THEN "user" ELSE "assistant"

(* No graph run is under way: the turns started so far have completed *)
BetweenTurns == pc = "run_assistant" \/ pc = "done"

(* C25: whatever the transcripts of the turns, empty or not, the message   *)
(* list of the state only grows, by appending; its roles alternate user,   *)
(* assistant, user, assistant from the first message on; and between turns *)
(* it holds twice as many messages as completed turns had a non-empty      *)
(* transcript.                                                             *)
C25_MessagesGrowInPairs ==
    /\ [][Extends(state.messages, state'.messages)]_vars
    /\ []RolesAlternate(state.messages)
    /\ [](BetweenTurns => Len(state.messages) = 2 * hist.heard)

(* The part on growth alone: no step removes or rewrites a message *)
C25_MessagesOnlyAppended == [][Extends(state.messages, state'.messages)]_vars

===========================================================================
